---- MODULE Spec2Model ----
(***************************************************************************)
(* Model of mp3.py: the MP3Player playback state machine, its background   *)
(* monitor thread (_monitor_playback) and the interactive command loop     *)
(* that drives it.  Two threads, "main" (interactive_loop and close) and   *)
(* "monitor", share current_index, state, the lock, the stop event and the *)
(* pygame mixer.  Each thread advances one statement group at a time; pc   *)
(* holds its position.                                                     *)
(***************************************************************************)
EXTENDS Integers, Sequences, FiniteSets, TLC

\* ------------------------------------------------------------------ bounds
\* Largest number of MP3 files in the directory.
MaxTracks == 3
\* How far beyond the playlist's ends an index typed at the prompt may lie.
MaxOver == 1

\* ------------------------------------------------------- values and helpers
Threads == {"main", "monitor"}

\* current_index = None (line 39) is written -1: no list index is negative.
None == -1
\* The mixer's stream when no music is loaded.
NoTrack == 0

\* The MP3 files a directory may hold, named by numbers in sort order, and
\* the directories the player is started on.
Files == 1 .. MaxTracks
Directories == {1 .. n : n \in 0 .. MaxTracks}

RECURSIVE SortedSeq(_)
\* sorted(directory.glob("*.mp3")): the files of S in ascending order.
SortedSeq(S) ==
    IF S = {} THEN <<>>
    ELSE LET m == CHOOSE x \in S : \A y \in S : x <= y
         IN  <<m>> \o SortedSeq(S \ {m})

find_mp3_files(S) == SortedSeq(S)

\* Line 39: 0 if self.tracks else None.
InitialIndex(trks) == IF Len(trks) > 0 THEN 0 ELSE None

PlaylistEmptyNever(trks) == FALSE
\* Lines 50, 59: not self.tracks.
PlaylistEmpty(trks) == Len(trks) = 0

CannotPauseUnlessStopped(st) == st = "stopped"
\* Line 78: self.state != "playing".
CannotPause(st) == st # "playing"

\* Line 87: self.state != "paused".
CannotResume(st) == st # "paused"

OutOfRangeOffByOne(index, n) == index < 0 \/ index > n
OutOfRangeRejectsZero(index, n) == index <= 0 \/ index >= n
\* Line 65: index < 0 or index >= len(self.tracks).
OutOfRange(index, n) == index < 0 \/ index >= n

\* Line 105: (self.current_index + 1) % len(self.tracks).
NextIndex(ci, n) == (ci + 1) % n

PreviousIndexNoWrap(ci, n) == IF ci - 1 >= 0 THEN ci - 1 ELSE ci
PreviousIndexNoModulo(ci, n) == ci - 1
\* Line 113: (self.current_index - 1) % len(self.tracks); Python's % takes the
\* sign of the divisor, as TLA+'s does for a positive divisor.
PreviousIndex(ci, n) == (ci - 1) % n

MonitorAdvanceIndexNoWrap(ci, n) == IF ci + 1 < n THEN ci + 1 ELSE ci
\* Line 149: (self.current_index + 1) % len(self.tracks).
MonitorAdvanceIndex(ci, n) == (ci + 1) % n

MonitorSkipsOnlyStopped(st) == st = "stopped"
\* Line 140: self.state != "playing".
MonitorSkips(st) == st # "playing"

AtPlaylistEndOffByOne(ci, n, lp) == ci = n /\ ~lp
\* Line 146: self.current_index == len(self.tracks) - 1 and not self.loop.
AtPlaylistEnd(ci, n, lp) == ci = n - 1 /\ ~lp

\* ------------------------------------------------------------ pygame mixer
\* init: the mixer is initialised (mixer.init() done, mixer.quit() not yet);
\* loaded: the track last loaded, or NoTrack; playing: a stream was started
\* and has neither ended nor been stopped; paused: the stream is paused.
MixerInit == [init |-> TRUE, loaded |-> NoTrack, playing |-> FALSE, paused |-> FALSE]

MixerLoad(m, track) == [m EXCEPT !.loaded = track, !.playing = FALSE, !.paused = FALSE]
MixerPlay(m) == [m EXCEPT !.playing = TRUE, !.paused = FALSE]
MixerPause(m) == [m EXCEPT !.paused = m.playing]
MixerUnpause(m) == [m EXCEPT !.paused = FALSE]
MixerStop(m) == [m EXCEPT !.playing = FALSE, !.paused = FALSE]
MixerQuit(m) == [m EXCEPT !.init = FALSE, !.loaded = NoTrack, !.playing = FALSE, !.paused = FALSE]
MixerBusy(m) == m.playing /\ ~m.paused

\* One entry of the log of engine calls: the call and its argument (load) or
\* result (get_busy: 1 busy, 0 idle).
Call(op, val) == [op |-> op, val |-> val]
BusyVal(b) == IF b THEN 1 ELSE 0

\* One printed line: its text, the track or index it names, the state it names.
Msg(text, val) == [text |-> text, val |-> val, st |-> ""]
StateMsg(s) == [text |-> "State:", val |-> 0, st |-> s]

VARIABLES
    tracks,         \* self.tracks: the sorted playlist
    loop,           \* self.loop
    current_index,  \* self.current_index
    state,          \* self.state: "stopped", "playing" or "paused"
    stop_event,     \* self._stop_event
    lock,           \* self._lock: "free" or the thread holding it
    mixer,          \* pygame.mixer
    pc,             \* each thread's position
    cmd,            \* the command line the main thread is executing
    calls,          \* engine calls made by each thread's current operation
    pre,            \* current_index and state when each thread's operation began
    out,            \* what each thread's current operation printed
    exc,            \* the exception each thread has raised, "" if none
    row,            \* list_tracks: the row about to be printed
    marks,          \* list_tracks: the rows printed with the "->" marker
    prev,           \* the main thread's previous command and the index it began
                    \* at, while the monitor has not written current_index since
    mprev           \* the index the monitor's previous cycle advanced from, while
                    \* the main thread has not written current_index since

vars == <<tracks, loop, current_index, state, stop_event, lock, mixer, pc, cmd,
          calls, pre, out, exc, row, marks, prev, mprev>>

N == Len(tracks)

Snapshot == [idx |-> current_index, state |-> state]
NoSnapshot == [idx |-> None, state |-> ""]

NoCmd == [action |-> "", given |-> FALSE, index |-> 0]
NoPrev == [action |-> "", idx |-> None]

\* MP3Player.__init__ (lines 33-47) on a directory holding the files S, with
\* the monitor thread started and the main thread at the prompt.  main()'s own
\* first calls, list_tracks() and play(current_index) (lines 221-222), are the
\* handlers the prompt reaches with "list" and "play 0".  main() leaves before
\* the prompt when the playlist is empty (line 217); the player itself accepts
\* every command on an empty playlist, so empty directories are kept.
Init ==
    \E S \in Directories, lp \in BOOLEAN :
        /\ tracks = find_mp3_files(S)
        /\ loop = lp
        /\ current_index = InitialIndex(find_mp3_files(S))
        /\ state = "stopped"
        /\ stop_event = FALSE
        /\ lock = "free"
        /\ mixer = MixerInit
        /\ pc = [t \in Threads |-> IF t = "main" THEN "prompt" ELSE "loop"]
        /\ cmd = NoCmd
        /\ calls = [t \in Threads |-> <<>>]
        /\ pre = [t \in Threads |-> NoSnapshot]
        /\ out = [t \in Threads |-> <<>>]
        /\ exc = [t \in Threads |-> ""]
        /\ row = 0
        /\ marks = {}
        /\ prev = NoPrev
        /\ mprev = None


\* ------------------------------------------------------------ bookkeeping
Other(t) == IF t = "main" THEN "monitor" ELSE "main"

Goto(t, label) == pc' = [pc EXCEPT ![t] = label]
Log(t, c) == calls' = [calls EXCEPT ![t] = Append(@, c)]
Say(t, m) == out' = [out EXCEPT ![t] = Append(@, m)]
\* An engine call that raises inside a with-block: pygame.error leaves the block.
Raise(t) == /\ exc' = [exc EXCEPT ![t] = "pygame.error"]
            /\ Goto(t, "unlock_exc")
\* Thread t's operation is over: its log, prints and snapshot are dropped.
Forget(t) ==
    /\ calls' = [calls EXCEPT ![t] = <<>>]
    /\ out' = [out EXCEPT ![t] = <<>>]
    /\ pre' = [pre EXCEPT ![t] = NoSnapshot]
\* The main thread's command is over: it becomes the previous command.
Completed ==
    /\ prev' = [action |-> cmd.action, idx |-> pre["main"].idx]
    /\ cmd' = NoCmd
    /\ row' = 0
    /\ marks' = {}

\* The monitor is a daemon thread: it runs until the process is gone.
ProcessAlive == pc["main"] # "exited"

\* The first track of the playlist, whatever the index.
CurrentTrackFirst == tracks[1]

\* The track self.tracks[self.current_index] (sequences count from 1).
CurrentTrack == tracks[current_index + 1]

\* ------------------------------------------------------- interactive_loop
Words == {"play", "pause", "resume", "stop", "next", "skip", "prev", "previous",
          "list", "status", "quit", "exit", "bogus", "", "EOF"}

\* Lines 184-204: the handler an action word selects; EOFError and
\* KeyboardInterrupt (lines 174-176) leave the loop as quit does.
ActionOf(word) ==
    CASE word \in {"play", "pause", "resume", "stop", "list", "status"} -> word
      [] word \in {"next", "skip"} -> "next"
      [] word \in {"prev", "previous"} -> "previous"
      [] word \in {"quit", "exit", "EOF"} -> "quit"
      [] word = "" -> ""
      [] OTHER -> "unknown"

\* The indices typed after play.
IndexArgs == (0 - MaxOver) .. (N + MaxOver - 1)

\* The input lines: an action word alone, play with an integer, play with a
\* word that is no integer.
Lines ==
    {[word |-> w, given |-> FALSE, numeric |-> TRUE, index |-> 0] : w \in Words}
    \cup {[word |-> "play", given |-> TRUE, numeric |-> TRUE, index |-> i] : i \in IndexArgs}
    \cup {[word |-> "play", given |-> TRUE, numeric |-> FALSE, index |-> 0]}

\* Where the dispatch of lines 184-204 sends the main thread.
Dispatch(line) ==
    CASE ActionOf(line.word) = "play" ->
            IF line.given /\ ~line.numeric THEN "close_set" ELSE "play_empty"
      [] ActionOf(line.word) \in {"pause", "resume", "stop", "next", "previous"} -> "acq"
      [] ActionOf(line.word) = "list" -> "list_empty"
      [] ActionOf(line.word) = "status" -> "status_chk"
      [] ActionOf(line.word) = "quit" -> "close_set"
      [] ActionOf(line.word) = "unknown" -> "ret"
      [] OTHER -> "prompt"

\* Lines 171-204: read a line and dispatch it.  int(parts[1]) at line 185
\* raises ValueError on a non-numeric argument; nothing in the loop catches
\* it, so it reaches main()'s finally (line 227).
Input ==
    /\ pc["main"] = "prompt"
    /\ \E line \in Lines :
        /\ cmd' = [action |-> ActionOf(line.word), given |-> line.given, index |-> line.index]
        /\ Goto("main", Dispatch(line))
        /\ exc' = [exc EXCEPT !["main"] =
                     IF ActionOf(line.word) = "play" /\ line.given /\ ~line.numeric
                     THEN "ValueError" ELSE ""]
        /\ out' = [out EXCEPT !["main"] =
                     IF ActionOf(line.word) = "unknown"
                     THEN <<Msg("Unknown command.", 0)>> ELSE <<>>]
    /\ pre' = [pre EXCEPT !["main"] = Snapshot]
    /\ UNCHANGED <<tracks, loop, current_index, state, stop_event, lock, mixer, calls,
                   row, marks, prev, mprev>>

\* A handler that took no lock returns to the prompt.
Return ==
    /\ pc["main"] = "ret"
    /\ Goto("main", "prompt")
    /\ Completed
    /\ Forget("main")
    /\ UNCHANGED <<tracks, loop, current_index, state, stop_event, lock, mixer, exc, mprev>>

\* ------------------------------------------------------------ the lock
\* The first statement inside the with-block of thread t's operation.
BodyEntry(t) ==
    IF t = "monitor" THEN "m_state"
    ELSE CASE cmd.action = "play" -> "play_idx"
           [] cmd.action = "pause" -> "pause_body"
           [] cmd.action = "resume" -> "resume_body"
           [] cmd.action = "stop" -> "stop_body"
           [] cmd.action = "next" -> "next_body"
           [] OTHER -> "prev_body"

AcquireWithoutWaiting(t) ==
    /\ pc[t] = "acq"
    /\ t = "monitor" => ProcessAlive
    /\ lock' = t
    /\ pre' = [pre EXCEPT ![t] = Snapshot]
    /\ Goto(t, BodyEntry(t))
    /\ UNCHANGED <<tracks, loop, current_index, state, stop_event, mixer, cmd, calls,
                   out, exc, row, marks, prev, mprev>>

\* with self._lock: (lines 63, 77, 86, 95, 101, 109, 139) blocks until free.
Acquire(t) ==
    /\ pc[t] = "acq"
    /\ t = "monitor" => ProcessAlive
    /\ lock = "free"
    /\ lock' = t
    /\ pre' = [pre EXCEPT ![t] = Snapshot]
    /\ Goto(t, BodyEntry(t))
    /\ UNCHANGED <<tracks, loop, current_index, state, stop_event, mixer, cmd, calls,
                   out, exc, row, marks, prev, mprev>>

\* Leaving the with-block normally (return, continue or falling off its end).
Unlock(t) ==
    /\ pc[t] = "unlock"
    /\ t = "monitor" => ProcessAlive
    /\ lock' = "free"
    /\ Goto(t, IF t = "main" THEN "prompt" ELSE "loop")
    /\ Forget(t)
    /\ IF t = "main"
       THEN Completed /\ UNCHANGED mprev
       ELSE /\ mprev' = IF Len(calls[t]) >= 2 THEN pre[t].idx ELSE None
            /\ UNCHANGED <<prev, cmd, row, marks>>
    /\ UNCHANGED <<tracks, loop, current_index, state, stop_event, mixer, exc>>

\* An exception that leaves the with-block without releasing the lock.
UnlockExcKeepsLock(t) ==
    /\ pc[t] = "unlock_exc"
    /\ t = "monitor" => ProcessAlive
    /\ Goto(t, IF t = "main" THEN "close_set" ELSE "dead")
    /\ Forget(t)
    /\ UNCHANGED <<tracks, loop, current_index, state, stop_event, lock, mixer, cmd,
                   exc, row, marks, prev, mprev>>

\* Leaving the with-block by an exception: the lock is released and the
\* exception goes on; in the main thread to main()'s finally (line 227), in
\* the monitor out of _monitor_playback, which ends the thread.
UnlockExc(t) ==
    /\ pc[t] = "unlock_exc"
    /\ t = "monitor" => ProcessAlive
    /\ lock' = "free"
    /\ Goto(t, IF t = "main" THEN "close_set" ELSE "dead")
    /\ Forget(t)
    /\ UNCHANGED <<tracks, loop, current_index, state, stop_event, mixer, cmd, exc,
                   row, marks, prev, mprev>>


\* ------------------------------------------------------------ MP3Player.play
\* Lines 59-61: the empty-playlist check, made before the lock is taken.
PlayEmptyCheck ==
    /\ pc["main"] = "play_empty"
    /\ IF PlaylistEmpty(tracks)
       THEN /\ Say("main", Msg("Playlist is empty.", 0))
            /\ Goto("main", "ret")
       ELSE /\ Goto("main", "acq")
            /\ UNCHANGED out
    /\ UNCHANGED <<tracks, loop, current_index, state, stop_event, lock, mixer, cmd,
                   calls, pre, exc, row, marks, prev, mprev>>

\* Lines 64-68: the range check and the assignment of current_index.
PlayIndex ==
    /\ pc["main"] = "play_idx"
    /\ IF cmd.given
       THEN IF OutOfRange(cmd.index, N)
            THEN /\ Say("main", Msg("out of range.", cmd.index))
                 /\ Goto("main", "unlock")
                 /\ UNCHANGED <<current_index, mprev>>
            ELSE /\ current_index' = cmd.index
                 /\ mprev' = None
                 /\ Goto("main", "play_load")
                 /\ UNCHANGED out
       ELSE /\ Goto("main", "play_load")
            /\ UNCHANGED <<current_index, mprev, out>>
    /\ UNCHANGED <<tracks, loop, state, stop_event, lock, mixer, cmd, calls, pre,
                   exc, row, marks, prev>>

\* Lines 70-71: music.load(track); it raises pygame.error on a file it cannot
\* read, and on a mixer that is not initialised.
PlayLoad ==
    /\ pc["main"] = "play_load"
    /\ Log("main", Call("load", CurrentTrack))
    /\ \E ok \in BOOLEAN :
        /\ ok => mixer.init
        /\ IF ok
           THEN /\ mixer' = MixerLoad(mixer, CurrentTrack)
                /\ Goto("main", "play_play")
                /\ UNCHANGED exc
           ELSE /\ Raise("main")
                /\ UNCHANGED mixer
    /\ UNCHANGED <<tracks, loop, current_index, state, stop_event, lock, cmd, pre,
                   out, row, marks, prev, mprev>>

\* Line 72: music.play().
PlayStart ==
    /\ pc["main"] = "play_play"
    /\ Log("main", Call("play", 0))
    /\ \E ok \in BOOLEAN :
        /\ ok => mixer.init
        /\ IF ok
           THEN /\ mixer' = MixerPlay(mixer)
                /\ Goto("main", "play_set")
                /\ UNCHANGED exc
           ELSE /\ Raise("main")
                /\ UNCHANGED mixer
    /\ UNCHANGED <<tracks, loop, current_index, state, stop_event, lock, cmd, pre,
                   out, row, marks, prev, mprev>>

\* Lines 73-74.
PlaySet ==
    /\ pc["main"] = "play_set"
    /\ state' = "playing"
    /\ Say("main", Msg("Playing:", CurrentTrack))
    /\ Goto("main", "unlock")
    /\ UNCHANGED <<tracks, loop, current_index, stop_event, lock, mixer, cmd, calls,
                   pre, exc, row, marks, prev, mprev>>

\* ------------------------------------------- pause, resume, stop (76-98)
\* Lines 78-83.
Pause ==
    /\ pc["main"] = "pause_body"
    /\ IF CannotPause(state)
       THEN /\ Say("main", Msg("Nothing is currently playing.", 0))
            /\ Goto("main", "unlock")
            /\ UNCHANGED <<state, mixer, calls, exc>>
       ELSE /\ Log("main", Call("pause", 0))
            /\ IF mixer.init
               THEN /\ mixer' = MixerPause(mixer)
                    /\ state' = "paused"
                    /\ Say("main", Msg("Paused.", 0))
                    /\ Goto("main", "unlock")
                    /\ UNCHANGED exc
               ELSE /\ Raise("main")
                    /\ UNCHANGED <<state, mixer, out>>
    /\ UNCHANGED <<tracks, loop, current_index, stop_event, lock, cmd, pre, row,
                   marks, prev, mprev>>

\* Lines 87-92.
Resume ==
    /\ pc["main"] = "resume_body"
    /\ IF CannotResume(state)
       THEN /\ Say("main", Msg("Player is not paused.", 0))
            /\ Goto("main", "unlock")
            /\ UNCHANGED <<state, mixer, calls, exc>>
       ELSE /\ Log("main", Call("unpause", 0))
            /\ IF mixer.init
               THEN /\ mixer' = MixerUnpause(mixer)
                    /\ state' = "playing"
                    /\ Say("main", Msg("Resumed.", 0))
                    /\ Goto("main", "unlock")
                    /\ UNCHANGED exc
               ELSE /\ Raise("main")
                    /\ UNCHANGED <<state, mixer, out>>
    /\ UNCHANGED <<tracks, loop, current_index, stop_event, lock, cmd, pre, row,
                   marks, prev, mprev>>

StopUnlessStopped ==
    /\ pc["main"] = "stop_body"
    /\ IF state = "stopped"
       THEN /\ Say("main", Msg("Stopped.", 0))
            /\ Goto("main", "unlock")
            /\ UNCHANGED <<state, mixer, calls>>
       ELSE /\ Log("main", Call("stop", 0))
            /\ mixer' = MixerStop(mixer)
            /\ state' = "stopped"
            /\ Say("main", Msg("Stopped.", 0))
            /\ Goto("main", "unlock")
    /\ UNCHANGED <<tracks, loop, current_index, stop_event, lock, cmd, pre, exc, row,
                   marks, prev, mprev>>

\* Lines 96-98.
Stop ==
    /\ pc["main"] = "stop_body"
    /\ Log("main", Call("stop", 0))
    /\ IF mixer.init
       THEN /\ mixer' = MixerStop(mixer)
            /\ state' = "stopped"
            /\ Say("main", Msg("Stopped.", 0))
            /\ Goto("main", "unlock")
            /\ UNCHANGED exc
       ELSE /\ Raise("main")
            /\ UNCHANGED <<state, mixer, out>>
    /\ UNCHANGED <<tracks, loop, current_index, stop_event, lock, cmd, pre, row,
                   marks, prev, mprev>>

\* ------------------------------------ next_track, previous_track (100-114)
\* Lines 102-105, up to the call of _play_current.
NextTrack ==
    /\ pc["main"] = "next_body"
    /\ IF current_index = None
       THEN /\ Say("main", Msg("No tracks available.", 0))
            /\ Goto("main", "unlock")
            /\ UNCHANGED <<current_index, mprev>>
       ELSE /\ current_index' = NextIndex(current_index, N)
            /\ mprev' = None
            /\ Goto("main", "pc_load")
            /\ UNCHANGED out
    /\ UNCHANGED <<tracks, loop, state, stop_event, lock, mixer, cmd, calls, pre,
                   exc, row, marks, prev>>

\* Lines 110-113, up to the call of _play_current.
PreviousTrack ==
    /\ pc["main"] = "prev_body"
    /\ IF current_index = None
       THEN /\ Say("main", Msg("No tracks available.", 0))
            /\ Goto("main", "unlock")
            /\ UNCHANGED <<current_index, mprev>>
       ELSE /\ current_index' = PreviousIndex(current_index, N)
            /\ mprev' = None
            /\ Goto("main", "pc_load")
            /\ UNCHANGED out
    /\ UNCHANGED <<tracks, loop, state, stop_event, lock, mixer, cmd, calls, pre,
                   exc, row, marks, prev>>

\* ------------------------------------------------ _play_current (129-134)
\* Lines 130-131, run by the thread that called _play_current.
PlayCurrentLoad(t) ==
    /\ pc[t] = "pc_load"
    /\ t = "monitor" => ProcessAlive
    /\ Log(t, Call("load", CurrentTrack))
    /\ \E ok \in BOOLEAN :
        /\ ok => mixer.init
        /\ IF ok
           THEN /\ mixer' = MixerLoad(mixer, CurrentTrack)
                /\ Goto(t, "pc_play")
                /\ UNCHANGED exc
           ELSE /\ Raise(t)
                /\ UNCHANGED mixer
    /\ UNCHANGED <<tracks, loop, current_index, state, stop_event, lock, cmd, pre,
                   out, row, marks, prev, mprev>>

\* Line 132.
PlayCurrentStart(t) ==
    /\ pc[t] = "pc_play"
    /\ t = "monitor" => ProcessAlive
    /\ Log(t, Call("play", 0))
    /\ \E ok \in BOOLEAN :
        /\ ok => mixer.init
        /\ IF ok
           THEN /\ mixer' = MixerPlay(mixer)
                /\ Goto(t, "pc_set")
                /\ UNCHANGED exc
           ELSE /\ Raise(t)
                /\ UNCHANGED mixer
    /\ UNCHANGED <<tracks, loop, current_index, state, stop_event, lock, cmd, pre,
                   out, row, marks, prev, mprev>>

PlayCurrentSetKeepsPaused(t) ==
    /\ pc[t] = "pc_set"
    /\ t = "monitor" => ProcessAlive
    /\ state' = IF state = "paused" THEN "paused" ELSE "playing"
    /\ Say(t, Msg("Playing:", CurrentTrack))
    /\ Goto(t, "unlock")
    /\ UNCHANGED <<tracks, loop, current_index, stop_event, lock, mixer, cmd, calls,
                   pre, exc, row, marks, prev, mprev>>

\* Lines 133-134, and the return to the caller's with-block, which ends.
PlayCurrentSet(t) ==
    /\ pc[t] = "pc_set"
    /\ t = "monitor" => ProcessAlive
    /\ state' = "playing"
    /\ Say(t, Msg("Playing:", CurrentTrack))
    /\ Goto(t, "unlock")
    /\ UNCHANGED <<tracks, loop, current_index, stop_event, lock, mixer, cmd, calls,
                   pre, exc, row, marks, prev, mprev>>


\* ---------------------------------------- list_tracks, status (49-56, 116-122)
\* Lines 50-52; neither list_tracks nor status takes the lock.
ListEmptyCheck ==
    /\ pc["main"] = "list_empty"
    /\ IF PlaylistEmpty(tracks)
       THEN /\ Say("main", Msg("No MP3 files found.", 0))
            /\ Goto("main", "ret")
       ELSE /\ Goto("main", "list_row")
            /\ UNCHANGED out
    /\ UNCHANGED <<tracks, loop, current_index, state, stop_event, lock, mixer, cmd,
                   calls, pre, exc, row, marks, prev, mprev>>

\* Lines 54-56: one turn of the for loop, reading current_index and state.
ListRow ==
    /\ pc["main"] = "list_row"
    /\ IF row < N
       THEN /\ marks' = IF row = current_index /\ state = "playing"
                        THEN marks \cup {row} ELSE marks
            /\ row' = row + 1
            /\ UNCHANGED pc
       ELSE /\ Goto("main", "ret")
            /\ UNCHANGED <<row, marks>>
    /\ UNCHANGED <<tracks, loop, current_index, state, stop_event, lock, mixer, cmd,
                   calls, pre, out, exc, prev, mprev>>

\* Lines 117-119.
StatusCheck ==
    /\ pc["main"] = "status_chk"
    /\ IF current_index = None
       THEN /\ Say("main", Msg("No track loaded.", 0))
            /\ Goto("main", "ret")
       ELSE /\ Goto("main", "status_track")
            /\ UNCHANGED out
    /\ UNCHANGED <<tracks, loop, current_index, state, stop_event, lock, mixer, cmd,
                   calls, pre, exc, row, marks, prev, mprev>>

\* Lines 120-121: the second read of current_index.
StatusTrack ==
    /\ pc["main"] = "status_track"
    /\ Say("main", Msg("Track:", CurrentTrack))
    /\ Goto("main", "status_state")
    /\ UNCHANGED <<tracks, loop, current_index, state, stop_event, lock, mixer, cmd,
                   calls, pre, exc, row, marks, prev, mprev>>

\* Line 122: the read of state.
StatusState ==
    /\ pc["main"] = "status_state"
    /\ Say("main", StateMsg(state))
    /\ Goto("main", "ret")
    /\ UNCHANGED <<tracks, loop, current_index, state, stop_event, lock, mixer, cmd,
                   calls, pre, exc, row, marks, prev, mprev>>

\* ------------------------------------------------------ close (124-127)
\* Line 125, reached from main()'s finally (line 227) once the loop is left.
CloseSet ==
    /\ pc["main"] = "close_set"
    /\ stop_event' = TRUE
    /\ Goto("main", "close_stop")
    /\ prev' = NoPrev
    /\ mprev' = None
    /\ UNCHANGED <<tracks, loop, current_index, state, lock, mixer, cmd, calls, pre,
                   out, exc, row, marks>>

\* Line 126.
CloseStop ==
    /\ pc["main"] = "close_stop"
    /\ Log("main", Call("stop", 0))
    /\ mixer' = MixerStop(mixer)
    /\ Goto("main", "close_quit")
    /\ UNCHANGED <<tracks, loop, current_index, state, stop_event, lock, cmd, pre,
                   out, exc, row, marks, prev, mprev>>

\* Line 127.
CloseQuit ==
    /\ pc["main"] = "close_quit"
    /\ Log("main", Call("quit", 0))
    /\ mixer' = MixerQuit(mixer)
    /\ Goto("main", "closed")
    /\ UNCHANGED <<tracks, loop, current_index, state, stop_event, lock, cmd, pre,
                   out, exc, row, marks, prev, mprev>>

\* Lines 228-232: main() returns (or the exception leaves it) and the
\* interpreter exits, taking the daemon monitor thread with it.
ProcessExit ==
    /\ pc["main"] = "closed"
    /\ Goto("main", "exited")
    /\ UNCHANGED <<tracks, loop, current_index, state, stop_event, lock, mixer, cmd,
                   calls, pre, out, exc, row, marks, prev, mprev>>

\* ------------------------------------------- _monitor_playback (136-150)
\* Line 137: the while condition.
MonitorLoop ==
    /\ pc["monitor"] = "loop"
    /\ ProcessAlive
    /\ Goto("monitor", IF stop_event THEN "finished" ELSE "sleep")
    /\ UNCHANGED <<tracks, loop, current_index, state, stop_event, lock, mixer, cmd,
                   calls, pre, out, exc, row, marks, prev, mprev>>

\* Line 138: time.sleep(0.5) returns.
MonitorSleep ==
    /\ pc["monitor"] = "sleep"
    /\ ProcessAlive
    /\ Goto("monitor", "acq")
    /\ UNCHANGED <<tracks, loop, current_index, state, stop_event, lock, mixer, cmd,
                   calls, pre, out, exc, row, marks, prev, mprev>>

\* Lines 140-141.
MonitorState ==
    /\ pc["monitor"] = "m_state"
    /\ ProcessAlive
    /\ Goto("monitor", IF MonitorSkips(state) THEN "unlock" ELSE "m_busy")
    /\ UNCHANGED <<tracks, loop, current_index, state, stop_event, lock, mixer, cmd,
                   calls, pre, out, exc, row, marks, prev, mprev>>

\* Lines 142-143: music.get_busy(), which raises pygame.error once the mixer
\* has been quit.
MonitorBusy ==
    /\ pc["monitor"] = "m_busy"
    /\ ProcessAlive
    /\ IF mixer.init
       THEN /\ Log("monitor", Call("get_busy", BusyVal(MixerBusy(mixer))))
            /\ Goto("monitor", IF MixerBusy(mixer) THEN "unlock" ELSE "m_end")
            /\ UNCHANGED exc
       ELSE /\ Log("monitor", Call("get_busy", 0))
            /\ Raise("monitor")
    /\ UNCHANGED <<tracks, loop, current_index, state, stop_event, lock, mixer, cmd,
                   pre, out, row, marks, prev, mprev>>

\* Lines 144-148: no current track, or the end of the playlist without loop.
MonitorEnd ==
    /\ pc["monitor"] = "m_end"
    /\ ProcessAlive
    /\ IF current_index = None
       THEN /\ Goto("monitor", "unlock")
            /\ UNCHANGED state
       ELSE IF AtPlaylistEnd(current_index, N, loop)
            THEN /\ state' = "stopped"
                 /\ Goto("monitor", "unlock")
            ELSE /\ Goto("monitor", "m_adv")
                 /\ UNCHANGED state
    /\ UNCHANGED <<tracks, loop, current_index, stop_event, lock, mixer, cmd, calls,
                   pre, out, exc, row, marks, prev, mprev>>

\* Line 149, up to the call of _play_current.
MonitorAdvance ==
    /\ pc["monitor"] = "m_adv"
    /\ ProcessAlive
    /\ current_index' = MonitorAdvanceIndex(current_index, N)
    /\ prev' = NoPrev
    /\ Goto("monitor", "pc_load")
    /\ UNCHANGED <<tracks, loop, state, stop_event, lock, mixer, cmd, calls, pre,
                   out, exc, row, marks, mprev>>

\* --------------------------------------------------------- the engine
\* The stream being played reaches its end: get_busy() turns false.
TrackEnds ==
    /\ ProcessAlive
    /\ mixer.init
    /\ MixerBusy(mixer)
    /\ mixer' = [mixer EXCEPT !.playing = FALSE]
    /\ UNCHANGED <<tracks, loop, current_index, state, stop_event, lock, cmd, calls,
                   pre, out, exc, row, marks, prev, mprev, pc>>

Next ==
    \/ Input
    \/ Return
    \/ \E t \in Threads : Acquire(t)
    \/ \E t \in Threads : Unlock(t)
    \/ \E t \in Threads : UnlockExc(t)
    \/ PlayEmptyCheck
    \/ PlayIndex
    \/ PlayLoad
    \/ PlayStart
    \/ PlaySet
    \/ Pause
    \/ Resume
    \/ Stop
    \/ NextTrack
    \/ PreviousTrack
    \/ \E t \in Threads : PlayCurrentLoad(t)
    \/ \E t \in Threads : PlayCurrentStart(t)
    \/ \E t \in Threads : PlayCurrentSet(t)
    \/ ListEmptyCheck
    \/ ListRow
    \/ StatusCheck
    \/ StatusTrack
    \/ StatusState
    \/ CloseSet
    \/ CloseStop
    \/ CloseQuit
    \/ ProcessExit
    \/ MonitorLoop
    \/ MonitorSleep
    \/ MonitorState
    \/ MonitorBusy
    \/ MonitorEnd
    \/ MonitorAdvance
    \/ TrackEnds

Spec == Init /\ [][Next]_vars


\* ------------------------------------------------------------ scheduling
\* The statements of _monitor_playback once the thread runs (lines 137-150),
\* the lock acquisition of line 139 apart.
MonitorStep ==
    \/ MonitorLoop
    \/ MonitorSleep
    \/ MonitorState
    \/ MonitorBusy
    \/ MonitorEnd
    \/ MonitorAdvance
    \/ PlayCurrentLoad("monitor")
    \/ PlayCurrentStart("monitor")
    \/ PlayCurrentSet("monitor")
    \/ Unlock("monitor")
    \/ UnlockExc("monitor")

\* The statements of the main thread that wait for nothing: every step of a
\* handler, of close() and of the process exit. Reading a line (input(),
\* line 171) and acquiring the lock are not among them.
MainStep ==
    \/ Return
    \/ Unlock("main")
    \/ UnlockExc("main")
    \/ PlayEmptyCheck
    \/ PlayIndex
    \/ PlayLoad
    \/ PlayStart
    \/ PlaySet
    \/ Pause
    \/ Resume
    \/ Stop
    \/ NextTrack
    \/ PreviousTrack
    \/ PlayCurrentLoad("main")
    \/ PlayCurrentStart("main")
    \/ PlayCurrentSet("main")
    \/ ListEmptyCheck
    \/ ListRow
    \/ StatusCheck
    \/ StatusTrack
    \/ StatusState
    \/ CloseSet
    \/ CloseStop
    \/ CloseQuit
    \/ ProcessExit

\* Both threads are scheduled: a thread that can take a step takes one. The
\* monitor thread is started in __init__ (lines 46-47) and the main thread
\* runs interactive_loop; the user may never type another line, so Input
\* has no fairness. A thread blocked at a with self._lock: gets the lock if
\* it is free again and again: the monitor sleeps 0.5 s between two cycles
\* (line 138) and the main thread waits for a line between two commands
\* (line 171), both without the lock. A started track ends (TrackEnds).
Fairness ==
    /\ WF_vars(MonitorStep)
    /\ WF_vars(MainStep)
    /\ SF_vars(Acquire("monitor"))
    /\ SF_vars(Acquire("main"))
    /\ WF_vars(TrackEnds)

LiveSpec == Init /\ [][Next]_vars /\ Fairness


\* The positions whose statement reads or writes self.current_index or
\* self.state: lines 68, 70, 73 (play), 78-82 (pause), 87-91 (resume), 97
\* (stop), 102-105 (next_track), 110-113 (previous_track), 130 and 133
\* (_play_current), 55 (list_tracks), 117, 120 and 122 (status), and in the
\* monitor lines 140, 144-147 and 149.
AccessPcs(t) ==
    IF t = "main"
    THEN {"play_idx", "play_load", "play_set", "pause_body", "resume_body",
          "stop_body", "next_body", "prev_body", "pc_load", "pc_set",
          "list_row", "status_chk", "status_track", "status_state"}
    ELSE {"m_state", "m_end", "m_adv", "pc_load", "pc_set"}

\* The positions inside a with self._lock: block, its exits included.
LockedPcs(t) ==
    IF t = "main"
    THEN {"play_idx", "play_load", "play_play", "play_set", "pause_body",
          "resume_body", "stop_body", "next_body", "prev_body", "pc_load",
          "pc_play", "pc_set", "unlock", "unlock_exc"}
    ELSE {"m_state", "m_busy", "m_end", "m_adv", "pc_load", "pc_play", "pc_set",
          "unlock", "unlock_exc"}

\* ================================================================ properties
InRange(i) == i \in 0 .. (N - 1)

\* The main thread's command has run to the end of its with-block and still
\* holds the lock, or has returned without taking it.
MainAtEnd == pc["main"] \in {"unlock", "ret"}

\* The monitor's cycle has run to the end of its with-block, having found
\* the player playing and the engine idle.
MonitorFoundIdle ==
    /\ pc["monitor"] = "unlock"
    /\ pre["monitor"].state = "playing"
    /\ Len(calls["monitor"]) >= 1
    /\ calls["monitor"][1] = Call("get_busy", 0)

\* The main thread is inside the handler of command a (not in close()).
HandlerPcs == {"play_empty", "acq", "play_idx", "play_load", "play_play", "play_set",
               "pause_body", "resume_body", "stop_body", "next_body", "prev_body",
               "pc_load", "pc_play", "pc_set", "list_empty", "list_row",
               "status_chk", "status_track", "status_state",
               "unlock", "unlock_exc", "ret"}
Running(a) == cmd.action = a /\ pc["main"] \in HandlerPcs

\* The statements of the main thread that call the engine's load or play.
EngineStartPcs == {"play_load", "play_play", "play_set", "pc_load", "pc_play", "pc_set"}

\* C1: on a non-empty playlist, when play(i) with 0 <= i < N reaches its end
\* with both engine calls successful, current_index = i and state = playing.
C1_PlayValidIndex ==
    (pc["main"] = "unlock" /\ cmd.action = "play" /\ cmd.given /\ InRange(cmd.index))
        => (current_index = cmd.index /\ state = "playing")

\* play(i) has just moved a paused player to another track.
C1_Witness ==
    /\ pc["main"] = "unlock" /\ cmd.action = "play" /\ cmd.given
    /\ InRange(cmd.index) /\ cmd.index # pre["main"].idx
    /\ pre["main"].state = "paused" /\ state = "playing"

\* C2 as stated: play(i) with i outside [0, N) leaves current_index and state
\* as they were, calls no engine function and reports "out of range".
C2_Original ==
    (MainAtEnd /\ cmd.action = "play" /\ cmd.given /\ ~InRange(cmd.index))
        => /\ current_index = pre["main"].idx
           /\ state = pre["main"].state
           /\ calls["main"] = <<>>
           /\ out["main"] = <<Msg("out of range.", cmd.index)>>

\* C2 amended: play(i) with i outside [0, N) never calls the engine and never
\* changes current_index or state; on a non-empty playlist it ends reporting
\* "out of range", on an empty one it ends reporting "Playlist is empty.".
C2_PlayOutOfRange ==
    (Running("play") /\ cmd.given /\ ~InRange(cmd.index))
        => /\ calls["main"] = <<>>
           /\ pc["main"] \notin EngineStartPcs
           /\ (lock = "main" \/ pc["main"] = "ret")
                => (current_index = pre["main"].idx /\ state = pre["main"].state)
           /\ pc["main"] = "unlock"
                => (N > 0 /\ out["main"] = <<Msg("out of range.", cmd.index)>>)
           /\ pc["main"] = "ret"
                => (N = 0 /\ out["main"] = <<Msg("Playlist is empty.", 0)>>)

\* play(N) has been rejected on a playing, non-empty playlist.
C2_Witness ==
    /\ pc["main"] = "unlock" /\ cmd.action = "play" /\ cmd.given
    /\ N > 0 /\ cmd.index = N /\ state = "playing" /\ current_index = N - 1
    /\ out["main"] = <<Msg("out of range.", N)>>

\* C3: in every reachable state current_index is None exactly when the
\* playlist is empty, and otherwise lies in [0, N).
C3_IndexInvariant ==
    /\ (current_index = None) <=> (N = 0)
    /\ current_index # None => InRange(current_index)

\* previous() has wrapped from index 0 to the last index of three tracks.
C3_Witness ==
    /\ pc["main"] = "unlock" /\ cmd.action = "previous"
    /\ N = 3 /\ pre["main"].idx = 0 /\ current_index = 2

\* C4: a monitor cycle that finds state = playing, the engine idle,
\* current_index = N-1 and loop off ends with state = stopped, current_index
\* still N-1, and no engine call besides the busy query.
C4_MonitorStopsAtEnd ==
    (MonitorFoundIdle /\ pre["monitor"].idx = N - 1 /\ ~loop)
        => /\ state = "stopped"
           /\ current_index = N - 1
           /\ calls["monitor"] = <<Call("get_busy", 0)>>

\* The monitor has stopped a three-track playlist at index 2.
C4_Witness ==
    /\ MonitorFoundIdle /\ ~loop /\ N = 3
    /\ pre["monitor"].idx = 2 /\ current_index = 2 /\ state = "stopped"

\* C5: a monitor cycle that finds state = playing and the engine idle, with
\* current_index not last or loop on, ends (engine calls succeeding) with
\* current_index = (old index + 1) mod N, load and play called for that track
\* (which the mixer holds unless close() has quit it meanwhile), and state =
\* playing; a cycle that follows another advance, with no command moving the
\* index between them, starts from the index that advance reached.
C5_MonitorAdvances ==
    (MonitorFoundIdle /\ ~(pre["monitor"].idx = N - 1 /\ ~loop))
        => /\ current_index = (IF pre["monitor"].idx = N - 1 THEN 0
                               ELSE pre["monitor"].idx + 1)
           /\ state = "playing"
           /\ calls["monitor"] = <<Call("get_busy", 0),
                                   Call("load", tracks[current_index + 1]),
                                   Call("play", 0)>>
           /\ mixer.init => mixer.loaded = tracks[current_index + 1]
           /\ mprev # None => pre["monitor"].idx = (IF mprev = N - 1 THEN 0 ELSE mprev + 1)

\* With loop on, two successive idle detections have stepped a three-track
\* playlist 2 -> 0 -> 1.
C5_Witness ==
    /\ MonitorFoundIdle /\ loop /\ N = 3 /\ mprev = 2
    /\ pre["monitor"].idx = 0 /\ current_index = 1 /\ state = "playing"

\* C6: pause() ends with current_index unchanged and, if state was playing,
\* one engine pause call and state = paused, otherwise no engine call, state
\* unchanged and a report; resume() likewise with paused, unpause, playing.
C6_PauseResume ==
    /\ (pc["main"] = "unlock" /\ cmd.action = "pause")
        => /\ current_index = pre["main"].idx
           /\ IF pre["main"].state = "playing"
              THEN calls["main"] = <<Call("pause", 0)>> /\ state = "paused"
              ELSE /\ calls["main"] = <<>>
                   /\ state = pre["main"].state
                   /\ out["main"] = <<Msg("Nothing is currently playing.", 0)>>
    /\ (pc["main"] = "unlock" /\ cmd.action = "resume")
        => /\ current_index = pre["main"].idx
           /\ IF pre["main"].state = "paused"
              THEN calls["main"] = <<Call("unpause", 0)>> /\ state = "playing"
              ELSE /\ calls["main"] = <<>>
                   /\ state = pre["main"].state
                   /\ out["main"] = <<Msg("Player is not paused.", 0)>>

\* pause() on a player that is already paused has done nothing.
C6_Witness ==
    /\ pc["main"] = "unlock" /\ cmd.action = "pause"
    /\ pre["main"].state = "paused" /\ state = "paused"
    /\ calls["main"] = <<>> /\ current_index >= 1

\* C7: when previous() ends right after next(), or next() right after
\* previous(), with no monitor advance since the first of the two began,
\* current_index is what it was before the first.
C7_NextPreviousInverse ==
    (pc["main"] = "unlock"
     /\ \/ (cmd.action = "previous" /\ prev.action = "next")
        \/ (cmd.action = "next" /\ prev.action = "previous"))
        => current_index = prev.idx

\* next() then previous() from the last of three tracks: 2 -> 0 -> 2.
C7_Witness ==
    /\ pc["main"] = "unlock" /\ cmd.action = "previous" /\ prev.action = "next"
    /\ N = 3 /\ prev.idx = 2 /\ pre["main"].idx = 0 /\ current_index = 2

\* C8: on a non-empty playlist next() and previous() end with state =
\* playing and the engine loaded with, and started on, tracks[current_index],
\* whatever the state was before.
C8_SkipAlwaysPlays ==
    (pc["main"] = "unlock" /\ cmd.action \in {"next", "previous"} /\ N > 0)
        => /\ state = "playing"
           /\ calls["main"] = <<Call("load", tracks[current_index + 1]), Call("play", 0)>>
           /\ mixer.loaded = tracks[current_index + 1]

\* next() has ended on a player that was paused.
C8_Witness ==
    /\ pc["main"] = "unlock" /\ cmd.action = "next" /\ N > 1
    /\ pre["main"].state = "paused" /\ state = "playing"

\* C9: stop() never raises, and ends with one engine stop call, state =
\* stopped and current_index unchanged; a second stop() in a row ends in the
\* state the first left: stopped, at the index the first began with.
C9_StopIdempotent ==
    /\ Running("stop") => (exc["main"] = "" /\ pc["main"] # "unlock_exc")
    /\ (pc["main"] = "unlock" /\ cmd.action = "stop")
        => /\ state = "stopped"
           /\ current_index = pre["main"].idx
           /\ calls["main"] = <<Call("stop", 0)>>
           /\ prev.action = "stop" => current_index = prev.idx

\* A second stop() in a row has ended.
C9_Witness ==
    /\ pc["main"] = "unlock" /\ cmd.action = "stop" /\ prev.action = "stop"
    /\ state = "stopped" /\ current_index >= 1

\* C10: with an empty playlist play(), play(i), next() and previous() never
\* reach an engine call, leave current_index None and state unchanged, and
\* end reporting the empty-playlist or no-track condition.
C10_EmptyPlaylist ==
    (N = 0 /\ (Running("play") \/ Running("next") \/ Running("previous")))
        => /\ calls["main"] = <<>>
           /\ pc["main"] \notin EngineStartPcs
           /\ current_index = None
           /\ state = "stopped"
           /\ MainAtEnd =>
                /\ state = pre["main"].state
                /\ out["main"] = (IF cmd.action = "play"
                                  THEN <<Msg("Playlist is empty.", 0)>>
                                  ELSE <<Msg("No tracks available.", 0)>>)

\* play() without an index has been refused on an empty playlist.
C10_Witness ==
    /\ N = 0 /\ pc["main"] = "ret" /\ cmd.action = "play" /\ ~cmd.given
    /\ out["main"] = <<Msg("Playlist is empty.", 0)>>


\* C11: every statement that reads or writes current_index or state, in any
\* controller operation and in the monitor, runs with the lock held by its
\* thread.
C11_AccessUnderLock ==
    \A t \in Threads : pc[t] \in AccessPcs(t) => lock = t


\* C12: a state-changing command and a monitor cycle are never inside their
\* with-blocks together: whichever is between its check of state/index and
\* its last write holds the lock, and the other is outside its block.
C12_NoInterleaving ==
    /\ \A t \in Threads : pc[t] \in LockedPcs(t) => lock = t
    /\ ~(pc["main"] \in LockedPcs("main") /\ pc["monitor"] \in LockedPcs("monitor"))

\* play waits for the lock while the monitor is in mid-advance: the index is
\* written, the track loaded, play and the state write still to come.
C12_Witness ==
    /\ pc["main"] = "acq" /\ cmd.action = "play"
    /\ pc["monitor"] = "pc_play" /\ lock = "monitor"
    /\ current_index # pre["monitor"].idx


\* C13: a monitor cycle that finds state paused or stopped goes straight to
\* the end of its with-block: no get_busy query, no other engine call, and
\* current_index and state as it found them.
C13_MonitorIdleSkip ==
    (lock = "monitor" /\ pre["monitor"].state # "playing")
        => /\ pc["monitor"] \in {"m_state", "unlock"}
           /\ calls["monitor"] = <<>>
           /\ current_index = pre["monitor"].idx
           /\ state = pre["monitor"].state

\* A cycle has skipped a paused player whose engine reports idle.
C13_Witness ==
    /\ pc["monitor"] = "unlock" /\ pre["monitor"].state = "paused"
    /\ state = "paused" /\ ~MixerBusy(mixer) /\ N >= 2 /\ calls["monitor"] = <<>>


\* C14: when load or play raises during play(i), next() or previous(), state
\* is not left playing unless the engine is in fact playing
\* tracks[current_index].
C14_FailureLeavesNoPlaying ==
    (pc["main"] = "unlock_exc" /\ cmd.action \in {"play", "next", "previous"})
        => (state = "playing"
              => (MixerBusy(mixer) /\ mixer.loaded = tracks[current_index + 1]))


\* C15: the monitor leaves its loop only once the stop event is set: a
\* failed engine call inside a cycle does not end the thread.
C15_MonitorSurvivesFailure ==
    pc["monitor"] \in {"finished", "dead"} => stop_event


\* The main thread has left interactive_loop: close() and what follows it.
ClosePcs == {"close_set", "close_stop", "close_quit", "closed", "exited"}

\* C16: apart from a failing engine call, only quit, exit, end-of-input or
\* an interrupt takes the main thread out of the interactive loop; no other
\* line, a play with a non-numeric argument included, ends it.
C16_OnlyQuitEndsLoop ==
    (pc["main"] \in ClosePcs /\ exc["main"] # "pygame.error") => cmd.action = "quit"


\* C17: with loop disabled, a player that is Playing while the main thread
\* waits at the prompt leads, under fair scheduling of the monitor and with
\* every track ending, to Stopped at the last index, unless a further
\* command is issued first.
C17_PlaysToTheEnd ==
    (state = "playing" /\ ~loop /\ pc["main"] = "prompt")
        ~> ((state = "stopped" /\ current_index = N - 1) \/ pc["main"] # "prompt")


\* C18: once close() has set the stop event, stopped the engine and quit
\* the mixer, no step adds an engine call to the monitor's log: the monitor
\* makes no busy query, load or play after the shutdown.
C18_NoEngineCallAfterClose ==
    [][pc["main"] = "closed" => Len(calls'["monitor"]) <= Len(calls["monitor"])]_vars


\* C19: when no operation holds the lock, no engine call has failed and the
\* mixer has not been quit, a player that is Playing or Paused has last
\* loaded tracks[current_index] into the engine.
C19_LoadedIsCurrent ==
    (/\ lock = "free"
     /\ exc["main"] = "" /\ exc["monitor"] = ""
     /\ mixer.init
     /\ state \in {"playing", "paused"})
        => /\ InRange(current_index)
           /\ mixer.loaded = tracks[current_index + 1]

\* A Paused player at rest on the last of three tracks, which the monitor
\* advanced to after a play of the track before it.
C19_Witness ==
    /\ lock = "free" /\ exc["main"] = "" /\ exc["monitor"] = "" /\ mixer.init
    /\ state = "paused" /\ N = 3 /\ current_index = 2 /\ mixer.loaded = tracks[3]
    /\ mprev = 1 /\ pc["main"] = "prompt"


\* C20: a thread holds the lock only inside a with-block, so every way out
\* of a block (return, early return, skip branch, exception) has released it
\* and a thread that is about to acquire does not hold it already; under
\* fair scheduling no thread waits for the lock for ever: a waiting command
\* gets past the acquisition, and so does a waiting monitor cycle unless
\* the process exits first.
C20_LockDiscipline ==
    /\ [](\A t \in Threads : pc[t] \notin LockedPcs(t) => lock # t)
    /\ []<>(pc["main"] # "acq")
    /\ []<>(pc["monitor"] # "acq" \/ ~ProcessAlive)

\* A command waits for the lock while the monitor, whose engine call has
\* just failed, is about to leave its with-block by the exception.
C20_Witness ==
    /\ pc["main"] = "acq" /\ cmd.action = "next"
    /\ lock = "monitor" /\ pc["monitor"] = "unlock_exc"
    /\ exc["monitor"] = "pygame.error"

====
